---- MODULE Spec2Model ----
(***************************************************************************)
(* Model of the stage-0 merge store (lsr_core.py) and of the import        *)
(* handler with its stage-order validation (lsr_app.py).                   *)
(*                                                                         *)
(* A text is a sequence of one-character strings.  A cell value of a       *)
(* DataFrame is either a string or the missing value NaN.  A dataset file  *)
(* holds texts; pd.read_csv and DataFrame.to_csv convert between the two.  *)
(* The pass-through columns (database, journal, year, abstract,            *)
(* abstract_source, run_date) take no part in any decision of the code and *)
(* are not represented in the rows.                                        *)
(***************************************************************************)
EXTENDS Integers, Sequences, FiniteSets, TLC

VARIABLES files, searches, last, max_used, importers, events, observed,
          resolution

vars ==
  <<files, searches, last, max_used, importers, events, observed, resolution>>

(***************************************************************************)
(* Bounds                                                                  *)
(***************************************************************************)
MaxRows == 3
MaxBatch == 2
MaxUpload == 1
MaxImports == 4
MaxCols == 3

(***************************************************************************)
(* Values                                                                  *)
(***************************************************************************)
None == -1

NoneStr == "None"

NaN == [kind |-> "nan", s |-> <<>>]

StrVal(s) == [kind |-> "str", s |-> s]

Whitespace == {" "}

LowerChar(c) ==
  CASE c = "A" -> "a"
    [] c = "B" -> "b"
    [] c = "N" -> "n"
    [] c = "I" -> "i"
    [] c = "P" -> "p"
    [] c = "T" -> "t"
    [] c = "Y" -> "y"
    [] OTHER -> c

\* str.lower()
Lower(s) == [i \in 1..Len(s) |-> LowerChar(s[i])]

RECURSIVE LStrip(_)
LStrip(s) ==
  IF s # <<>> /\ Head(s) \in Whitespace THEN LStrip(Tail(s)) ELSE s

RECURSIVE RStrip(_)
RStrip(s) ==
  IF s # <<>> /\ s[Len(s)] \in Whitespace
  THEN RStrip(SubSeq(s, 1, Len(s) - 1))
  ELSE s

\* str.strip()
Strip(s) == RStrip(LStrip(s))

\* str(x) of a cell value: str(float("nan")) is "nan"
PyStr(v) == IF v.kind = "nan" THEN <<"n", "a", "n">> ELSE v.s

\* the texts pd.read_csv turns into NaN (its default na_values)
NA_VALUES ==
  { <<>>,
    <<"N", "A">>,
    <<"N", "a", "N">>,
    <<"n", "a", "n">>,
    <<"N", "/", "A">>,
    <<"n", "/", "a">>,
    <<"N", "U", "L", "L">>,
    <<"n", "u", "l", "l">>,
    <<"N", "o", "n", "e">>,
    <<"<", "N", "A", ">">>,
    <<"#", "N", "/", "A">>,
    <<"#", "N", "A">>,
    <<"-", "N", "a", "N">>,
    <<"-", "n", "a", "n">> }

\* one cell as pd.read_csv parses it
ReadCell(t) == IF t \in NA_VALUES THEN NaN ELSE StrVal(t)

\* one cell as DataFrame.to_csv writes it (na_rep is the empty text)
WriteCell(v) == IF v.kind = "nan" THEN <<>> ELSE v.s

(***************************************************************************)
(* Dataset files                                                           *)
(***************************************************************************)
STAGE_ORDER == 0..2

FINAL_COLUMNS ==
  << "database", "title", "journal", "year", "abstract", "abstract_source",
     "search_id", "search_start_year", "search_end_year", "run_date" >>

Absent == [kind |-> "absent", idcol |-> "none", rows |-> <<>>]

ZeroLength == [kind |-> "empty", idcol |-> "none", rows |-> <<>>]

Csv(idcol, rows) == [kind |-> "csv", idcol |-> idcol, rows |-> rows]

\* os.path.exists(path)
Exists(f) == f.kind # "absent"

\* os.path.exists(path) and os.path.getsize(path) > 0
ExistsNonEmpty(f) == f.kind = "csv"

\* pd.read_csv of a stage-0 file: a frame with the batch-id column name
ReadRow0(r) == [r EXCEPT !.title = ReadCell(r.title)]

read_csv(f) ==
  [idcol |-> f.idcol, rows |-> [i \in 1..Len(f.rows) |-> ReadRow0(f.rows[i])]]

WriteRow0(r) == [r EXCEPT !.title = WriteCell(r.title)]

\* df.to_csv(path, index=False) of a stage-0 frame
to_csv(df) ==
  Csv(df.idcol, [i \in 1..Len(df.rows) |-> WriteRow0(df.rows[i])])

\* len(pd.read_csv(path)) if the file exists and is not empty, else 0
count_rows(f) == IF ExistsNonEmpty(f) THEN Len(f.rows) ELSE 0

(***************************************************************************)
(* lsr_core.update_lsr_database                                            *)
(***************************************************************************)
\* df_old["search_id"].max() of a frame that has rows
SeriesMax(rows) ==
  CHOOSE m \in {rows[i].search_id : i \in 1..Len(rows)} :
    \A i \in 1..Len(rows) : rows[i].search_id <= m

\* variant: the legacy column is left under its old name
MigrateLegacy_NoRename(df) == df

\* the backward-compatibility rename of the batch-id column
MigrateLegacy(df) ==
  IF df.idcol # "search_id" /\ df.idcol = "search_round"
  THEN [df EXCEPT !.idcol = "search_id"]
  ELSE df

\* variant: the number of stored rows taken for the largest batch id
next_search_id_RowCount(df_old) == Len(df_old.rows) + 1

\* variant: the largest stored batch id used again
next_search_id_NoIncrement(df_old) == SeriesMax(df_old.rows)

\* int(df_old["search_id"].max()) + 1
next_search_id(df_old) == SeriesMax(df_old.rows) + 1

\* set(df_old["title"].astype(str).str.lower().str.strip().dropna())
existing_titles(df_old) ==
  {Strip(Lower(PyStr(df_old.rows[i].title))) : i \in 1..Len(df_old.rows)}

\* variant: the candidate title compared without lowercasing it
KeepRecord_NoLower(r, existing) ==
  LET title == Strip(PyStr(r.title))
  IN  /\ title # <<>>
      /\ title \notin existing

\* one pass of the loop over records
KeepRecord(r, existing) ==
  LET title == Strip(PyStr(r.title))
  IN  /\ title # <<>>
      /\ Lower(title) \notin existing

NewRow(r, id, start, end) ==
  [title |-> StrVal(Strip(PyStr(r.title))),
   search_id |-> id,
   search_start_year |-> start,
   search_end_year |-> end]

\* variant: the title set is extended by every record that is kept
RECURSIVE new_rows_IntraDedup(_, _, _, _, _)
new_rows_IntraDedup(records, existing, id, start, end) ==
  IF records = <<>>
  THEN <<>>
  ELSE LET r == Head(records)
       IN  IF KeepRecord(r, existing)
           THEN <<NewRow(r, id, start, end)>> \o
                new_rows_IntraDedup(Tail(records),
                                    existing \cup {Lower(Strip(PyStr(r.title)))},
                                    id, start, end)
           ELSE new_rows_IntraDedup(Tail(records), existing, id, start, end)

RECURSIVE new_rows(_, _, _, _, _)
new_rows(records, existing, id, start, end) ==
  IF records = <<>>
  THEN <<>>
  ELSE LET r == Head(records)
           rest == new_rows(Tail(records), existing, id, start, end)
       IN  IF KeepRecord(r, existing)
           THEN <<NewRow(r, id, start, end)>> \o rest
           ELSE rest

\* variant: only the new rows are written when there are any
MergeAndSave_Overwrite(df_old, records, id, existing, start, end) ==
  LET rows == new_rows(records, existing, id, start, end)
      df_all == IF rows # <<>>
                THEN [df_old EXCEPT !.rows = rows]
                ELSE df_old
  IN  [raised |-> FALSE,
       csv |-> to_csv(df_all),
       added |-> Len(rows),
       search_id |-> id]

\* variant: the number of candidates returned as the number added
MergeAndSave_CountCandidates(df_old, records, id, existing, start, end) ==
  LET rows == new_rows(records, existing, id, start, end)
      df_all == IF rows # <<>>
                THEN [df_old EXCEPT !.rows = df_old.rows \o rows]
                ELSE df_old
  IN  [raised |-> FALSE,
       csv |-> to_csv(df_all),
       added |-> Len(records),
       search_id |-> id]

\* pd.concat([df_old, df_new]) or df_old, then to_csv, then the return value
MergeAndSave(df_old, records, id, existing, start, end) ==
  LET rows == new_rows(records, existing, id, start, end)
      df_all == IF rows # <<>>
                THEN [df_old EXCEPT !.rows = df_old.rows \o rows]
                ELSE df_old
  IN  [raised |-> FALSE,
       csv |-> to_csv(df_all),
       added |-> Len(rows),
       search_id |-> id]

\* the whole call; raised = TRUE when int() is applied to the NaN that
\* max() gives for a frame without rows (the file is then left as it was)
update_lsr_database(records, project_csv, search_start_year, search_end_year) ==
  IF ExistsNonEmpty(project_csv)
  THEN LET df_old == MigrateLegacy(read_csv(project_csv))
       IN  IF df_old.rows = <<>>
           THEN [raised |-> TRUE, csv |-> project_csv,
                 added |-> 0, search_id |-> 0]
           ELSE MergeAndSave(df_old, records, next_search_id(df_old),
                             existing_titles(df_old),
                             search_start_year, search_end_year)
  ELSE MergeAndSave([idcol |-> "search_id", rows |-> <<>>], records, 1, {},
                    search_start_year, search_end_year)

(***************************************************************************)
(* lsr_core.normalize_and_import_csv                                       *)
(***************************************************************************)
\* one record per row of the uploaded frame, title = row.get("title")
RecordsOf(uploaded_df) ==
  [i \in 1..Len(uploaded_df) |-> [title |-> uploaded_df[i]]]

normalize_and_import_csv(uploaded_df, project_csv, search_start_year, search_end_year) ==
  update_lsr_database(RecordsOf(uploaded_df), project_csv,
                      search_start_year, search_end_year)

(***************************************************************************)
(* Inputs                                                                  *)
(***************************************************************************)
\* title values handed to the library functions
CoreTitles ==
  {StrVal(<<" ">>), StrVal(<<"A", " ">>), StrVal(<<"N", "A">>), NaN}

\* title cells of a frame that pd.read_csv produced from an upload
UploadTitles == {StrVal(<<"a">>), NaN}

SeqsUpTo(S, n) == UNION {[1..k -> S] : k \in 0..n}

\* (search_start_year, search_end_year)
Coverage == {<<2000, 2020>>}

\* a dataset written by an earlier version: legacy batch-id column,
\* title kept as exported
LegacyDataset ==
  Csv("search_round",
      << [title |-> <<"a", " ">>, search_id |-> 5,
          search_start_year |-> 1990, search_end_year |-> 1999] >>)

InitialDatasets == {Absent, ZeroLength, LegacyDataset}

NoOp ==
  [op |-> "none", stage |-> 0, titles |-> <<>>,
   start |-> None, end |-> None, outcome |-> "none",
   added |-> 0, search_id |-> 0,
   pre |-> [s \in STAGE_ORDER |-> Absent]]

(***************************************************************************)
(* Library level: calls of the two functions on one stage-0 dataset        *)
(***************************************************************************)
\* two imports that have not started, a reader that has not read
Procs == {1, 2}

IdleImporter == [pc |-> "idle", titles |-> <<>>, snapshot |-> Absent]

NothingObserved == [seen |-> FALSE, file |-> Absent, initial |-> Absent]

NoColumn == <<>>

NotResolved == [done |-> FALSE, columns |-> <<>>, resolved |-> <<>>]

Quiet ==
  /\ importers = [p \in Procs |-> IdleImporter]
  /\ events = <<>>
  /\ observed = NothingObserved
  /\ resolution = NotResolved

InitCore ==
  /\ \E f \in InitialDatasets :
       files = [s \in STAGE_ORDER |-> IF s = 0 THEN f ELSE Absent]
  /\ searches = <<>>
  /\ last = NoOp
  /\ max_used = 0
  /\ Quiet

CoreCall(name, res, titles, cov) ==
  /\ Len(res.csv.rows) <= MaxRows
  /\ files' = [files EXCEPT ![0] = res.csv]
  /\ last' = [op |-> name, stage |-> 0, titles |-> titles,
              start |-> cov[1], end |-> cov[2],
              outcome |-> IF res.raised THEN "error" ELSE "ok",
              added |-> res.added, search_id |-> res.search_id,
              pre |-> files]
  /\ max_used' = IF ~res.raised /\ res.search_id > max_used
                 THEN res.search_id ELSE max_used
  /\ UNCHANGED <<searches, importers, events, observed, resolution>>

UpdateLsrDatabase ==
  \E titles \in SeqsUpTo(CoreTitles, MaxBatch), cov \in Coverage :
    \E res \in {update_lsr_database(RecordsOf(titles), files[0], cov[1], cov[2])} :
      CoreCall("update_lsr_database", res, titles, cov)

NextCore == UpdateLsrDatabase

SpecCore == InitCore /\ [][NextCore]_vars

(***************************************************************************)
(* lsr_app: the "Confirm & Import" handler                                 *)
(***************************************************************************)
\* df_std.to_csv(path, index=False) of a stage-1 or stage-2 upload
to_csv_std(df_std) ==
  Csv("none", [i \in 1..Len(df_std) |-> [title |-> WriteCell(df_std[i])]])

\* variant: an upload as large as the previous stage is refused too
stage_order_validation_Ge(fs, stage, current_count) ==
  IF stage > 0
  THEN IF ~Exists(fs[stage - 1])
       THEN "missing_prev"
       ELSE IF current_count >= count_rows(fs[stage - 1])
            THEN "count_exceeded"
            ELSE "ok"
  ELSE "ok"

\* variant: the existence of the previous stage's file is not looked at
stage_order_validation_NoExists(fs, stage, current_count) ==
  IF stage > 0
  THEN IF current_count > count_rows(fs[stage - 1])
       THEN "count_exceeded"
       ELSE "ok"
  ELSE "ok"

\* STAGE ORDER VALIDATION: "ok", or the reason of the st.error / st.stop
stage_order_validation(fs, stage, current_count) ==
  IF stage > 0
  THEN IF ~Exists(fs[stage - 1])
       THEN "missing_prev"
       ELSE IF current_count > count_rows(fs[stage - 1])
            THEN "count_exceeded"
            ELSE "ok"
  ELSE "ok"

\* variant: the number of added records logged as the uploaded count
SearchEntry_RawAsAdded(stage, search_id, database, strategy, start, end, raw, dedup) ==
  [search_id |-> search_id,
   database |-> IF stage = 0 THEN database ELSE NoneStr,
   search_strategy |-> IF stage = 0 THEN strategy ELSE NoneStr,
   search_start_year |-> start,
   search_end_year |-> end,
   records_raw |-> dedup,
   records_deduplicated |-> dedup,
   import_stage |-> stage]

\* the entry appended to metadata["searches"]
SearchEntry(stage, search_id, database, strategy, start, end, raw, dedup) ==
  [search_id |-> search_id,
   database |-> IF stage = 0 THEN database ELSE NoneStr,
   search_strategy |-> IF stage = 0 THEN strategy ELSE NoneStr,
   search_start_year |-> start,
   search_end_year |-> end,
   records_raw |-> raw,
   records_deduplicated |-> dedup,
   import_stage |-> stage]

\* variant: a stage-1 or stage-2 upload is appended to the stored rows
save_data_by_stage_Merge(fs, log, stage, df_std, database, strategy, start, end) ==
  IF stage = 0
  THEN LET res == normalize_and_import_csv(df_std, fs[0], start, end)
       IN  IF res.raised
           THEN [files |-> fs, searches |-> log, outcome |-> "error",
                 added |-> 0, search_id |-> 0]
           ELSE [files |-> [fs EXCEPT ![0] = res.csv],
                 searches |-> Append(log,
                    SearchEntry(0, res.search_id, database, strategy,
                                start, end, Len(df_std), res.added)),
                 outcome |-> "ok",
                 added |-> res.added, search_id |-> res.search_id]
  ELSE [files |-> [fs EXCEPT ![stage] =
                     Csv("none", fs[stage].rows \o to_csv_std(df_std).rows)],
        searches |-> Append(log,
           SearchEntry(stage, None, database, strategy,
                       None, None, Len(df_std), None)),
        outcome |-> "ok",
        added |-> Len(df_std), search_id |-> None]

\* variant: saving a stage removes the datasets of the later stages
save_data_by_stage_Cascade(fs, log, stage, df_std, database, strategy, start, end) ==
  IF stage = 0
  THEN LET res == normalize_and_import_csv(df_std, fs[0], start, end)
       IN  IF res.raised
           THEN [files |-> fs, searches |-> log, outcome |-> "error",
                 added |-> 0, search_id |-> 0]
           ELSE [files |-> [fs EXCEPT ![0] = res.csv],
                 searches |-> Append(log,
                    SearchEntry(0, res.search_id, database, strategy,
                                start, end, Len(df_std), res.added)),
                 outcome |-> "ok",
                 added |-> res.added, search_id |-> res.search_id]
  ELSE [files |-> [s \in STAGE_ORDER |->
                     IF s = stage THEN to_csv_std(df_std)
                     ELSE IF s > stage THEN Absent ELSE fs[s]],
        searches |-> Append(log,
           SearchEntry(stage, None, database, strategy,
                       None, None, Len(df_std), None)),
        outcome |-> "ok",
        added |-> Len(df_std), search_id |-> None]

\* variant: an upload without rows is logged but no file is written
save_data_by_stage_SkipEmpty(fs, log, stage, df_std, database, strategy, start, end) ==
  IF stage = 0
  THEN LET res == normalize_and_import_csv(df_std, fs[0], start, end)
       IN  IF res.raised
           THEN [files |-> fs, searches |-> log, outcome |-> "error",
                 added |-> 0, search_id |-> 0]
           ELSE [files |-> [fs EXCEPT ![0] = res.csv],
                 searches |-> Append(log,
                    SearchEntry(0, res.search_id, database, strategy,
                                start, end, Len(df_std), res.added)),
                 outcome |-> "ok",
                 added |-> res.added, search_id |-> res.search_id]
  ELSE [files |-> IF df_std = <<>> THEN fs
                   ELSE [fs EXCEPT ![stage] = to_csv_std(df_std)],
        searches |-> Append(log,
           SearchEntry(stage, None, database, strategy,
                       None, None, Len(df_std), None)),
        outcome |-> "ok",
        added |-> Len(df_std), search_id |-> None]

\* SAVE DATA BY STAGE and the provenance append, for a validated import
save_data_by_stage(fs, log, stage, df_std, database, strategy, start, end) ==
  IF stage = 0
  THEN LET res == normalize_and_import_csv(df_std, fs[0], start, end)
       IN  IF res.raised
           THEN [files |-> fs, searches |-> log, outcome |-> "error",
                 added |-> 0, search_id |-> 0]
           ELSE [files |-> [fs EXCEPT ![0] = res.csv],
                 searches |-> Append(log,
                    SearchEntry(0, res.search_id, database, strategy,
                                start, end, Len(df_std), res.added)),
                 outcome |-> "ok",
                 added |-> res.added, search_id |-> res.search_id]
  ELSE [files |-> [fs EXCEPT ![stage] = to_csv_std(df_std)],
        searches |-> Append(log,
           SearchEntry(stage, None, database, strategy,
                       None, None, Len(df_std), None)),
        outcome |-> "ok",
        added |-> Len(df_std), search_id |-> None]

\* variant: the handler goes on to save after a failed validation
confirm_import_NoStop(fs, log, stage, df_std, database, strategy, start, end) ==
  LET v == stage_order_validation(fs, stage, Len(df_std))
      saved == save_data_by_stage(fs, log, stage, df_std, database, strategy,
                                  start, end)
  IN  IF v # "ok" THEN [saved EXCEPT !.outcome = v] ELSE saved

\* the handler from the validation to save_metadata
confirm_import(fs, log, stage, df_std, database, strategy, start, end) ==
  LET v == stage_order_validation(fs, stage, Len(df_std))
  IN  IF v # "ok"
      THEN [files |-> fs, searches |-> log, outcome |-> v,
            added |-> 0, search_id |-> 0]
      ELSE save_data_by_stage(fs, log, stage, df_std, database, strategy,
                              start, end)

Databases == {"PubMed"}

Strategies == {"query"}

Init ==
  /\ files = [s \in STAGE_ORDER |-> Absent]
  /\ searches = <<>>
  /\ last = NoOp
  /\ max_used = 0
  /\ Quiet

ConfirmImport(stage) ==
  /\ Len(searches) < MaxImports
  /\ \E df_std \in SeqsUpTo(UploadTitles, MaxUpload), cov \in Coverage,
        database \in Databases, strategy \in Strategies :
       \E res \in {confirm_import(files, searches, stage, df_std, database,
                                  strategy,
                                  IF stage = 0 THEN cov[1] ELSE None,
                                  IF stage = 0 THEN cov[2] ELSE None)} :
         /\ Len(res.files[0].rows) <= MaxRows
         /\ files' = res.files
         /\ searches' = res.searches
         /\ last' = [op |-> "confirm_import", stage |-> stage,
                     titles |-> df_std,
                     start |-> IF stage = 0 THEN cov[1] ELSE None,
                     end |-> IF stage = 0 THEN cov[2] ELSE None,
                     outcome |-> res.outcome,
                     added |-> res.added, search_id |-> res.search_id,
                     pre |-> files]
         /\ max_used' = IF stage = 0 /\ res.outcome = "ok"
                           /\ res.search_id > max_used
                        THEN res.search_id ELSE max_used
  /\ UNCHANGED <<importers, events, observed, resolution>>

Next == \E stage \in STAGE_ORDER : ConfirmImport(stage)

Spec == Init /\ [][Next]_vars

(***************************************************************************)
(* Two update_lsr_database calls on one dataset that run at the same time, *)
(* and a reader of the dataset (count_rows).  A call reads the file, then  *)
(* to_csv opens it for writing, which truncates it, and writes the frame   *)
(* from offset 0 when the handle is flushed and closed.                    *)
(***************************************************************************)
RaceTitles == {StrVal(<<"A", " ">>), StrVal(<<"b">>)}

RaceCoverage == CHOOSE cov \in Coverage : TRUE

\* the frame a call writes: computed from the file as it was when loaded
SavedCsv(imp) ==
  update_lsr_database(RecordsOf(imp.titles), imp.snapshot,
                      RaceCoverage[1], RaceCoverage[2]).csv

LoadRaises(imp) ==
  update_lsr_database(RecordsOf(imp.titles), imp.snapshot,
                      RaceCoverage[1], RaceCoverage[2]).raised

\* bytes written from offset 0 into a file that was not truncated since:
\* what lies behind the written part stays (rows of equal length)
Overlay(new, cur) ==
  IF cur.kind = "csv" /\ Len(cur.rows) > Len(new.rows)
  THEN Csv(new.idcol,
           new.rows \o SubSeq(cur.rows, Len(new.rows) + 1, Len(cur.rows)))
  ELSE new

InitRace ==
  /\ \E f \in InitialDatasets :
       /\ files = [s \in STAGE_ORDER |-> IF s = 0 THEN f ELSE Absent]
       /\ observed = [seen |-> FALSE, file |-> Absent, initial |-> f]
  /\ searches = <<>>
  /\ last = NoOp
  /\ max_used = 0
  /\ importers = [p \in Procs |-> IdleImporter]
  /\ events = <<>>
  /\ resolution = NotResolved

\* lines 72-87: the call reads the dataset (or finds none)
Load(p) ==
  /\ importers[p].pc = "idle"
  /\ \E titles \in SeqsUpTo(RaceTitles, MaxUpload) :
       LET imp == [pc |-> "loaded", titles |-> titles, snapshot |-> files[0]]
       IN  importers' = [importers EXCEPT ![p] =
                           IF LoadRaises(imp)
                           THEN [imp EXCEPT !.pc = "raised"]
                           ELSE imp]
  /\ events' = Append(events, <<"load", p>>)
  /\ UNCHANGED <<files, searches, last, max_used, observed, resolution>>

\* line 118, first part: to_csv opens the file in mode "w"
OpenForWrite(p) ==
  /\ importers[p].pc = "loaded"
  /\ importers' = [importers EXCEPT ![p].pc = "open"]
  /\ files' = [files EXCEPT ![0] = ZeroLength]
  /\ events' = Append(events, <<"open", p>>)
  /\ UNCHANGED <<searches, last, max_used, observed, resolution>>

\* line 118, second part: the rows reach the file when the handle closes
Flush(p) ==
  /\ importers[p].pc = "open"
  /\ importers' = [importers EXCEPT ![p].pc = "done"]
  /\ files' = [files EXCEPT ![0] = Overlay(SavedCsv(importers[p]), files[0])]
  /\ events' = Append(events, <<"flush", p>>)
  /\ UNCHANGED <<searches, last, max_used, observed, resolution>>

\* count_rows(path) or pd.read_csv(path) by another request
ReadDataset ==
  /\ ~observed.seen
  /\ observed' = [observed EXCEPT !.seen = TRUE, !.file = files[0]]
  /\ UNCHANGED <<files, searches, last, max_used, importers, events,
                 resolution>>

NextRace ==
  \/ \E p \in Procs : Load(p)
  \/ \E p \in Procs : OpenForWrite(p)
  \/ \E p \in Procs : Flush(p)
  \/ ReadDataset

SpecRace == InitRace /\ [][NextRace]_vars

(***************************************************************************)
(* Column resolution (resolve_bibliographic_columns).                      *)
(***************************************************************************)
\* col.lower().replace(" ", "").replace("_", "")
normalize_colname(col) ==
  SelectSeq(Lower(col), LAMBDA c : c \notin {" ", "_"})

Fields == {"title", "abstract", "journal", "year"}

Aliases_title ==
  {<<"t", "i", "t", "l", "e">>,
   <<"a", "r", "t", "i", "c", "l", "e", "t", "i", "t", "l", "e">>,
   <<"d", "o", "c", "u", "m", "e", "n", "t", "t", "i", "t", "l", "e">>,
   <<"p", "u", "b", "l", "i", "c", "a", "t", "i", "o", "n", "t", "i", "t", "l", "e">>,
   <<"i", "t", "e", "m", "t", "i", "t", "l", "e">>,
   <<"t", "i">>}

Aliases_abstract ==
  {<<"a", "b", "s", "t", "r", "a", "c", "t">>,
   <<"a", "b", "s", "t", "r", "a", "c", "t", "t", "e", "x", "t">>,
   <<"a", "b", "s", "t", "r", "a", "c", "t", "n", "o", "t", "e">>,
   <<"s", "u", "m", "m", "a", "r", "y">>,
   <<"d", "e", "s", "c", "r", "i", "p", "t", "i", "o", "n">>,
   <<"a", "b">>}

Aliases_journal ==
  {<<"j", "o", "u", "r", "n", "a", "l">>,
   <<"j", "o", "u", "r", "n", "a", "l", "/", "b", "o", "o", "k">>,
   <<"s", "o", "u", "r", "c", "e">>,
   <<"s", "o", "u", "r", "c", "e", "t", "i", "t", "l", "e">>,
   <<"p", "u", "b", "l", "i", "c", "a", "t", "i", "o", "n", "n", "a", "m", "e">>,
   <<"c", "o", "n", "t", "a", "i", "n", "e", "r", "t", "i", "t", "l", "e">>,
   <<"s", "o">>}

Aliases_year ==
  {<<"y", "e", "a", "r">>,
   <<"p", "u", "b", "l", "i", "c", "a", "t", "i", "o", "n", "y", "e", "a", "r">>,
   <<"p", "y">>,
   <<"d", "a", "t", "e">>,
   <<"i", "s", "s", "u", "e", "d">>}

COLUMN_ALIASES ==
  [field \in Fields |->
     CASE field = "title" -> Aliases_title
       [] field = "abstract" -> Aliases_abstract
       [] field = "journal" -> Aliases_journal
       [] field = "year" -> Aliases_year]

\* {normalize_colname(c): c for c in df.columns}: a later header replaces an
\* earlier one of the same normalized form
NormalizedDict(columns) ==
  LET forms == {normalize_colname(columns[i]) : i \in DOMAIN columns}
      LastAt(n) ==
        CHOOSE i \in DOMAIN columns :
          /\ normalize_colname(columns[i]) = n
          /\ \A j \in DOMAIN columns :
               normalize_colname(columns[j]) = n => j <= i
  IN  [n \in forms |-> columns[LastAt(n)]]

\* the results resolve_bibliographic_columns can return: the aliases are a
\* set of strings, iterated in hash order, so any alias that is present can
\* be the one next() yields
resolve_bibliographic_columns(columns) ==
  LET normalized == NormalizedDict(columns)
      Candidates(field) ==
        {normalized[a] : a \in COLUMN_ALIASES[field] \cap DOMAIN normalized}
  IN  {resolved \in [Fields -> {NoColumn} \cup {columns[i] : i \in DOMAIN columns}] :
         \A field \in Fields :
           IF Candidates(field) = {}
           THEN resolved[field] = NoColumn
           ELSE resolved[field] \in Candidates(field)}

\* raw headers of an uploaded table
Headers ==
  {<<"T", "I">>, <<"t", "_", "i">>, <<"T", "i", "t", "l", "e">>,
   <<"P", "Y">>, <<"x">>}

\* header rows: distinct headers, as pd.read_csv delivers them
ColumnLists ==
  {columns \in SeqsUpTo(Headers, MaxCols) :
     \A i, j \in DOMAIN columns : i # j => columns[i] # columns[j]}

InitResolve ==
  /\ files = [s \in STAGE_ORDER |-> Absent]
  /\ searches = <<>>
  /\ last = NoOp
  /\ max_used = 0
  /\ Quiet

Resolve ==
  /\ ~resolution.done
  /\ \E columns \in ColumnLists :
       \E resolved \in resolve_bibliographic_columns(columns) :
         resolution' =
           [done |-> TRUE, columns |-> columns, resolved |-> resolved]
  /\ UNCHANGED <<files, searches, last, max_used, importers, events,
                 observed>>

NextResolve == Resolve

SpecResolve == InitResolve /\ [][NextResolve]_vars

(***************************************************************************)
(* Vocabulary of the properties.  The content of a dataset is what         *)
(* pd.read_csv yields for its file, which is how the program reads it.     *)
(***************************************************************************)
\* identity key of a title value: lowercase + trim
Key(v) == Strip(Lower(PyStr(v)))

RowsOf(f) == read_csv(f).rows

Dataset0 == RowsOf(files[0])

PreDataset0 == RowsOf(last.pre[0])

CountKey(rows, k) == Cardinality({i \in 1..Len(rows) : Key(rows[i].title) = k})

IsPrefix(a, b) == Len(a) <= Len(b) /\ SubSeq(b, 1, Len(a)) = a

MaxId(rows) == IF rows = <<>> THEN 0 ELSE SeriesMax(rows)

\* the rows of the dataset that lie behind the rows it had before the call
Appended == SubSeq(Dataset0, Len(PreDataset0) + 1, Len(Dataset0))

Stage0Call(l) == l.op # "none" /\ l.stage = 0

Stage0Ok(l) == Stage0Call(l) /\ l.outcome = "ok"

Rejected(l) == l.outcome \in {"missing_prev", "count_exceeded"}

IsTitle(v) == v.kind = "str" /\ Strip(v.s) # <<>>

(***************************************************************************)
(* C1: for every non-empty title T and every dataset that does not hold T, *)
(* after two separate stage-0 imports that each carry one record titled T  *)
(* the dataset holds exactly one row whose title is T.                     *)
(***************************************************************************)
C1_TwoImportsOneRow ==
  [][ ( /\ Stage0Ok(last) /\ Stage0Ok(last')
        /\ Len(last.titles) = 1 /\ last'.titles = last.titles
        /\ IsTitle(last.titles[1])
        /\ CountKey(PreDataset0, Key(last.titles[1])) = 0 )
      => CountKey(RowsOf(files'[0]), Key(last.titles[1])) = 1 ]_vars

(***************************************************************************)
(* C2: in every reachable state of a project the stage-1 dataset has at    *)
(* most as many rows as the stage-0 dataset, and the stage-2 dataset at    *)
(* most as many rows as the stage-1 dataset.                               *)
(***************************************************************************)
C2_StagesNarrow ==
  /\ Len(files[1].rows) <= Len(files[0].rows)
  /\ Len(files[2].rows) <= Len(files[1].rows)

(***************************************************************************)
(* C3: the batch identifier returned by a stage-0 import is strictly       *)
(* greater than the one returned by every earlier import into the dataset, *)
(* and an import into a dataset without rows returns 1.                    *)
(***************************************************************************)
C3_BatchIdsIncrease ==
  [][ Stage0Ok(last')
      => /\ last'.search_id > max_used
         /\ (Len(files[0].rows) = 0 => last'.search_id = 1) ]_vars

(***************************************************************************)
(* C4: all rows appended by one stage-0 import carry the same search_id,   *)
(* which is 1 + the maximum search_id stored before the import, and the    *)
(* coverage years of the batch.                                            *)
(***************************************************************************)
C4_AppendedRowsStamped ==
  Stage0Ok(last)
  => \A i \in 1..Len(Appended) :
       /\ Appended[i].search_id = 1 + MaxId(PreDataset0)
       /\ Appended[i].search_start_year = last.start
       /\ Appended[i].search_end_year = last.end

C4_Witness ==
  /\ Stage0Ok(last)
  /\ last.added = 2
  /\ Len(Appended) = 2
  /\ MaxId(PreDataset0) = 5
  /\ Appended[1].search_id = 6 /\ Appended[2].search_id = 6

(***************************************************************************)
(* C5: a stage-0 import into a dataset that holds no rows succeeds and     *)
(* uses batch identifier 1, whether the file is absent, has zero length or *)
(* holds a header and no rows.                                             *)
(***************************************************************************)
C5_EmptyDatasetGetsOne ==
  (Stage0Call(last) /\ Len(last.pre[0].rows) = 0)
  => (last.outcome = "ok" /\ last.search_id = 1)

(***************************************************************************)
(* C6: a candidate whose title differs from a stored title only in letter  *)
(* case or in leading/trailing whitespace is dropped and adds no row.      *)
(***************************************************************************)
SameButCaseAndSpace(c, stored) ==
  /\ IsTitle(c)
  /\ stored.kind = "str"
  /\ Lower(Strip(c.s)) = Lower(Strip(stored.s))

C7_CountCheck ==
  (last.op = "confirm_import" /\ last.stage > 0)
  => LET prev == last.pre[last.stage - 1]
     IN  /\ Len(last.titles) > Len(prev.rows) => Rejected(last)
         /\ (Len(last.titles) <= Len(prev.rows) /\ prev.kind # "absent")
            => last.outcome = "ok"

C7_Witness ==
  /\ last.op = "confirm_import" /\ last.stage > 0
  /\ last.pre[last.stage - 1].kind = "csv"
  /\ Len(last.titles) > Len(last.pre[last.stage - 1].rows)
  /\ last.outcome = "count_exceeded"

(***************************************************************************)
(* C8: an import into stage n in {1, 2} is rejected when no dataset has    *)
(* ever been imported for stage n-1, whatever the number of uploaded rows. *)
(***************************************************************************)
\* the provenance log as it was before the last operation
PreSearches ==
  IF last.outcome = "ok" THEN SubSeq(searches, 1, Len(searches) - 1)
  ELSE searches

EverImported(stage) ==
  \E i \in 1..Len(PreSearches) : PreSearches[i].import_stage = stage

C8_PreviousStageRequired ==
  (last.op = "confirm_import" /\ last.stage > 0
     /\ ~EverImported(last.stage - 1))
  => Rejected(last)

C8_Witness ==
  /\ last.op = "confirm_import" /\ last.stage > 0
  /\ ~EverImported(last.stage - 1)
  /\ Len(last.titles) = 0
  /\ last.outcome = "missing_prev"

(***************************************************************************)
(* C9: when the validator rejects an import, no stage dataset is created   *)
(* or modified and no provenance entry is appended.                        *)
(***************************************************************************)
C9_RejectionChangesNothing ==
  [][ (last'.op = "confirm_import" /\ Rejected(last'))
      => (files' = files /\ searches' = searches) ]_vars

C9_Witness ==
  /\ last.op = "confirm_import" /\ Rejected(last)
  /\ last.outcome = "count_exceeded"
  /\ files = last.pre
  /\ files[0].kind = "csv"
  /\ Len(searches) > 0

StageTitles(f) == [i \in 1..Len(f.rows) |-> ReadCell(f.rows[i].title)]

SameTitleTwice ==
  /\ Stage0Ok(last)
  /\ Len(last.titles) = 2
  /\ last.titles[1] = last.titles[2]
  /\ IsTitle(last.titles[1])
  /\ CountKey(PreDataset0, Key(last.titles[1])) = 0

C12_NoDedupInsideBatch ==
  SameTitleTwice
  => /\ last.added = 2
     /\ Len(Dataset0) = Len(PreDataset0) + 2
     /\ Dataset0[Len(Dataset0)].title = Dataset0[Len(Dataset0) - 1].title
     /\ Len(PreDataset0) = 0 => last.search_id = 1

C12_Witness ==
  /\ SameTitleTwice
  /\ last.pre[0].kind = "absent"
  /\ last.added = 2 /\ last.search_id = 1
  /\ Len(Dataset0) = 2
  /\ Dataset0[1].title = StrVal(<<"A">>)
  /\ Dataset0[2].title = StrVal(<<"A">>)

(***************************************************************************)
(* C13: a stage-0 import is idempotent: repeating an import with the same  *)
(* batch right after it was applied adds zero rows and leaves every stored *)
(* row unchanged, for every batch and every starting dataset.              *)
(***************************************************************************)
C13_RepeatAddsNothing ==
  [][ ( /\ Stage0Ok(last) /\ Stage0Call(last')
        /\ last'.titles = last.titles
        /\ last'.start = last.start /\ last'.end = last.end )
      => /\ last'.added = 0
         /\ RowsOf(files'[0]) = RowsOf(files[0]) ]_vars

(***************************************************************************)
(* C14: update_lsr_database returns (count_added, batch_id_used), where    *)
(* count_added is the number of candidates with a non-empty trimmed title  *)
(* whose normalized title is not in the title set of the dataset before    *)
(* the batch, and the row count after the call is the row count before it  *)
(* plus count_added.                                                       *)
(***************************************************************************)
PreTitleSet == {Key(PreDataset0[i].title) : i \in 1..Len(PreDataset0)}

Survivors ==
  {j \in 1..Len(last.titles) :
     IsTitle(last.titles[j]) /\ Key(last.titles[j]) \notin PreTitleSet}

C14_CountAdded ==
  Stage0Ok(last)
  => /\ last.added = Cardinality(Survivors)
     /\ Len(Dataset0) = Len(PreDataset0) + last.added

(***************************************************************************)
(* C15: every row stored in the stage-0 dataset has a title that is        *)
(* non-empty after trimming: the merge drops every record whose title is   *)
(* empty, whitespace-only or absent (the null value the normalizer yields  *)
(* for an empty title cell) and adds no row for it.                        *)
(***************************************************************************)
C15_NoRowWithoutTitle ==
  /\ \A i \in 1..Len(Dataset0) : IsTitle(Dataset0[i].title)
  /\ Stage0Ok(last)
     => last.added <= Cardinality({j \in 1..Len(last.titles) :
                                     IsTitle(last.titles[j])})

(***************************************************************************)
(* C16: when the stored stage-0 dataset carries the legacy column          *)
(* search_round and not search_id, the next import uses 1 + the maximum    *)
(* legacy value as batch id and persists the dataset with the column       *)
(* search_id, the old values kept, and without a search_round column.      *)
(***************************************************************************)
C16_LegacyMigrated ==
  (Stage0Ok(last) /\ last.pre[0].kind = "csv"
     /\ last.pre[0].idcol = "search_round")
  => /\ last.search_id = 1 + MaxId(last.pre[0].rows)
     /\ files[0].idcol = "search_id"
     /\ Len(files[0].rows) >= Len(last.pre[0].rows)
     /\ \A i \in 1..Len(last.pre[0].rows) :
          files[0].rows[i].search_id = last.pre[0].rows[i].search_id

C16_Witness ==
  /\ Stage0Ok(last)
  /\ last.pre[0] = LegacyDataset
  /\ last.search_id = 6
  /\ files[0].idcol = "search_id"
  /\ files[0].rows[1].search_id = 5
  /\ last.added = 1
  /\ files[0].rows[2].search_id = 6

(***************************************************************************)
(* C19: every accepted import appends exactly one provenance entry with    *)
(* the target stage as import_stage and the uploaded row count as          *)
(* records_raw; for stage 0 records_deduplicated is the count added and    *)
(* search_id the batch id used; for stage 1 and 2 records_deduplicated,    *)
(* search_id, database, search_strategy and the coverage years are null.   *)
(***************************************************************************)
C19_OneProvenanceEntry ==
  [][ (last'.op = "confirm_import" /\ last'.outcome = "ok")
      => /\ Len(searches') = Len(searches) + 1
         /\ SubSeq(searches', 1, Len(searches)) = searches
         /\ LET e == searches'[Len(searches')]
            IN  /\ e.import_stage = last'.stage
                /\ e.records_raw = Len(last'.titles)
                /\ IF last'.stage = 0
                   THEN /\ e.records_deduplicated =
                             Len(files'[0].rows) - Len(files[0].rows)
                        /\ e.records_deduplicated = last'.added
                        /\ e.search_id = last'.search_id
                        /\ \A i \in (Len(files[0].rows) + 1)..Len(files'[0].rows) :
                             files'[0].rows[i].search_id = e.search_id
                        /\ e.database \in Databases
                        /\ e.search_strategy \in Strategies
                   ELSE /\ e.records_deduplicated = None
                        /\ e.search_id = None
                        /\ e.database = NoneStr
                        /\ e.search_strategy = NoneStr
                        /\ e.search_start_year = None
                        /\ e.search_end_year = None ]_vars

C19_Witness ==
  /\ last.op = "confirm_import" /\ last.outcome = "ok" /\ last.stage = 0
  /\ Len(last.titles) = 1 /\ last.added = 0
  /\ Len(searches) >= 2
  /\ searches[Len(searches)].records_raw = 1
  /\ searches[Len(searches)].records_deduplicated = 0
  /\ searches[Len(searches)].search_id = last.search_id


(***************************************************************************)
(* Concurrent imports and readers.                                         *)
(***************************************************************************)
BothLoadedFirst ==
  /\ Len(events) >= 2
  /\ events[1][1] = "load"
  /\ events[2][1] = "load"

AllDone == \A p \in Procs : importers[p].pc = "done"

LastWriter == events[Len(events)][2]

\* C17: when both imports load the dataset before either writes and both
\* have written, the dataset is exactly the one the import that wrote last
\* computed from its own snapshot, and neither import raised.
C17_LastWriterWins ==
  (BothLoadedFirst /\ AllDone) =>
    files[0] = SavedCsv(importers[LastWriter])

\* the datasets a reader may see: the one before the imports and the ones
\* the imports computed
CompleteDatasets ==
  {RowsOf(observed.initial)} \cup
  {RowsOf(SavedCsv(importers[p])) :
     p \in {q \in Procs : importers[q].pc \in {"loaded", "open", "done"}}}

\* C18: a reader that runs while an import persists sees the complete
\* dataset of before the import or the complete dataset of after it, never
\* an empty or partly written one.
C18_ReaderSeesComplete ==
  observed.seen => RowsOf(observed.file) \in CompleteDatasets

(***************************************************************************)
(* Column resolution.                                                      *)
(***************************************************************************)
Matches(columns, field) ==
  {i \in DOMAIN columns :
     normalize_colname(columns[i]) \in COLUMN_ALIASES[field]}

FirstMatch(columns, field) ==
  IF Matches(columns, field) = {}
  THEN NoColumn
  ELSE columns[CHOOSE i \in Matches(columns, field) :
                 \A j \in Matches(columns, field) : i <= j]

\* C20: every canonical field resolves to the earliest header, in header
\* order, whose normalized form is one of the field's aliases, and to None
\* when no header matches.
C20_FirstHeaderWins ==
  resolution.done =>
    \A field \in Fields :
      resolution.resolved[field] = FirstMatch(resolution.columns, field)

(***************************************************************************)
(* Frame and invariants of the project's datasets and provenance log.      *)
(***************************************************************************)
\* C21: an accepted import into stage n leaves the datasets of the two
\* other stages as they were, and the stage-order validator never rejects
\* a stage-0 import, whatever stages 1 and 2 hold.
C21_OnlyTargetStage ==
  last.op = "confirm_import"
  => /\ last.outcome = "ok"
        => \A s \in STAGE_ORDER \ {last.stage} : files[s] = last.pre[s]
     /\ last.stage = 0 => ~Rejected(last)

C21_Witness ==
  /\ last.op = "confirm_import" /\ last.outcome = "ok" /\ last.stage = 0
  /\ files[0] # last.pre[0]
  /\ Len(files[1].rows) = 1 /\ Len(files[2].rows) = 1
  /\ files[1] = last.pre[1] /\ files[2] = last.pre[2]

StageEntries(stage) ==
  {i \in 1..Len(searches) : searches[i].import_stage = stage}

\* C22: the stage-2 dataset exists only if the stage-1 dataset exists,
\* which exists only if the stage-0 dataset exists, and every provenance
\* entry of stage n has the stage-n dataset on disk.
C22_StagesExistInOrder ==
  /\ Exists(files[2]) => Exists(files[1])
  /\ Exists(files[1]) => Exists(files[0])
  /\ \A i \in 1..Len(searches) : Exists(files[searches[i].import_stage])

C22_Witness ==
  /\ Exists(files[2]) /\ Exists(files[1]) /\ Exists(files[0])
  /\ StageEntries(2) # {} /\ StageEntries(1) # {} /\ StageEntries(0) # {}
  /\ \E i \in StageEntries(1) : searches[i].records_raw = 0

RECURSIVE SumStage0(_, _)
\* sum of a count over the stage-0 entries among the first n of the log
SumStage0(n, raw) ==
  IF n = 0
  THEN 0
  ELSE SumStage0(n - 1, raw) +
         (IF searches[n].import_stage # 0 THEN 0
          ELSE IF raw THEN searches[n].records_raw
          ELSE searches[n].records_deduplicated)

\* C23: the stage-0 dataset has as many rows as the stage-0 entries of the
\* log report as records_deduplicated in total, and that total is at most
\* the total of their records_raw.
C23_RowsEqualLoggedAdds ==
  /\ count_rows(files[0]) = SumStage0(Len(searches), FALSE)
  /\ Len(Dataset0) = SumStage0(Len(searches), FALSE)
  /\ SumStage0(Len(searches), FALSE) <= SumStage0(Len(searches), TRUE)

C23_Witness ==
  /\ Len(Dataset0) = 2
  /\ SumStage0(Len(searches), FALSE) = 2
  /\ SumStage0(Len(searches), TRUE) = 3
  /\ Cardinality(StageEntries(0)) = 3

\* C24: the search_id values of the stage-0 dataset never decrease in row
\* order, and the rows an import appends carry an id greater than the id
\* of every row stored before it, so no two imports share a search_id.
C24_IdsGroupedByImport ==
  /\ \A i, j \in 1..Len(Dataset0) :
       i <= j => Dataset0[i].search_id <= Dataset0[j].search_id
  /\ Stage0Ok(last)
     => /\ IsPrefix(PreDataset0, Dataset0)
        /\ \A i \in 1..Len(Appended), j \in 1..Len(PreDataset0) :
             PreDataset0[j].search_id < Appended[i].search_id

C24_Witness ==
  /\ Stage0Ok(last)
  /\ Len(PreDataset0) = 1 /\ Len(Appended) = 2
  /\ PreDataset0[1].search_id = 1
  /\ Appended[1].search_id = 2 /\ Appended[2].search_id = 2
====
